---------------------------- MODULE Spec2Model ----------------------------
(***************************************************************************)
(* Stateless OAuth 2.0 authorization-code flow with PKCE of the Freshsales *)
(* MCP server: the signer/verifier of src/api/oauth-utils.js, the          *)
(* /authorize and /token handlers, the legacy static token handler and the *)
(* streamable-HTTP MCP handler that forwards tool calls to the CRM backend, *)
(* the /register handler and the two metadata documents.                   *)
(*                                                                         *)
(* The server keeps no state between requests.  The state of the model is  *)
(* the environment the process was started with, the clock, what the       *)
(* client holds (the last code and access token it was handed) and the     *)
(* request being answered with its response.                               *)
(***************************************************************************)
EXTENDS Integers, FiniteSets, Sequences, TLC

VARIABLES
    env,      \* process.env: FRESHSALES_API_KEY, FRESHSALES_BASE_URL, MCP_ACCESS_TOKEN
    now,      \* Date.now(), epoch milliseconds
    ticks,    \* number of clock steps taken (bounds the exploration)
    code,     \* the authorization code the client was last redirected with
    token,    \* the access token the client was last handed by /token
    codeSigned,   \* the payload createAuthCode signed to make `code`
    tokenSigned,  \* the payload createAccessToken signed to make `token`
    flows,    \* per client of a concurrent flow: the code and token it holds
    registered,   \* the client_ids /register has returned (kept by no one)
    session,  \* the MCP server and transport of the POST being handled
    tool,     \* the last tools/call: its arguments, backend requests, result
    url,      \* the base URL of the CRM backend as read and normalised so far
    req,      \* the request being answered, NoRequest between requests
    res       \* the answer to it

vars == <<env, now, ticks, code, token, codeSigned, tokenSigned, flows,
          registered, session, tool, url, req, res>>

---------------------------------------------------------------------------
(* Bounds of the exploration *)

MaxTicks == 2
\* exchanges of its code a client of a concurrent flow attempts
MaxExchanges == 2
\* POST requests to the MCP endpoint whose server and transport are followed
MaxSessions == 2

(* Program constants *)

\* src/api/oauth-utils.js:53   exp: Date.now() + 5 * 60 * 1000
CODE_TTL == 5 * 60 * 1000
\* src/api/oauth-utils.js:66   exp: Date.now() + 7 * 24 * 60 * 60 * 1000
ACCESS_TTL == 7 * 24 * 60 * 60 * 1000
\* src/unnamed/part_003:46     expires_in: 604800
EXPIRES_IN == 604800
\* src/api/oauth-utils.js:13   .digest("hex") of a SHA-256 HMAC: 64 characters
HEX_DIGEST_LEN == 64

\* the process starts at some positive epoch time
StartTime == 1000

\* JavaScript `undefined` for a string-valued field, and the empty string
Undefined == "undefined"
Empty == ""

\* src/api/oauth-utils.js:5
DEFAULT_KEY == "mcp-oauth-default-key"
\* src/api/oauth/token.js:1
STATIC_AUTH_CODE == "freshsales-static-auth-code"

---------------------------------------------------------------------------
(* Values the requests are drawn from *)

ClientIds == {"abc", "xyz"}

\* RFC 7636 appendix B verifier, and a second one
Verifier1 == "dBjftJeZ4CVP-mB92K27uhbUJU1p1r_wW1gFWFOEjXk"
Verifier2 == "abcdefghijklmnopqrstuvwxyzABCDEFGHIJKLMNOPQRSTUV"
Verifiers == {Verifier1, Verifier2}

\* crypto.createHash("sha256").update(v).digest("base64url") on the
\* verifiers of the model (the digests are the real ones)
Sha256Base64url(v) ==
    CASE v = Verifier1 -> "E9Melhoa2OwvFrEMTJguCHaoeK1t8URWbuGJSstw-cM"
      [] v = Verifier2 -> "9r7vzuOCLw9cKe9z7so0EytqkkPIpd-i0ca4BuQ2W8Y"
      [] OTHER -> "sha256:" \o v

\* challenges a client may send: the S256 transform of a verifier, or the
\* verifier itself (the `plain` transform)
Challenges == {Sha256Base64url(Verifier1), Verifier1}

ValidRedirect == "https://app.example/cb"
BadRedirect == "not a url"

---------------------------------------------------------------------------
(* Signer / verifier: src/api/oauth-utils.js *)

\* the data of a token that carries none, and the MAC of one that carries none
EmptyData == [s |-> [k \in {} |-> Empty], exp |-> 0]
NoMac == [len |-> 0, key |-> Empty, data |-> EmptyData]

\* a token field that is absent from the request (undefined), and a string
\* that does not decode to a JSON envelope
NoToken == [shape |-> "undefined", d |-> EmptyData, h |-> NoMac, slack |-> 0]
NotJson == [shape |-> "notjson", d |-> EmptyData, h |-> NoMac, slack |-> 0]

StringKeys ==
    {"t", "client_id", "code_challenge", "code_challenge_method", "redirect_uri"}

\* SIGNING_KEY that is the same in every deployment
SIGNING_KEY_Constant(e) == DEFAULT_KEY

\* SIGNING_KEY = sha256(process.env.FRESHSALES_API_KEY || default).
\* SHA-256 is modelled as injective: the key is named by the string hashed.
SIGNING_KEY(e) ==
    IF e.FRESHSALES_API_KEY \in {Undefined, Empty}
    THEN DEFAULT_KEY ELSE e.FRESHSALES_API_KEY

\* JsonStringify with a member lost in serialisation
JsonStringifyLossy(payload) ==
    [s |-> [k \in {x \in StringKeys \ {"redirect_uri"} : payload[x] # Undefined}
              |-> payload[k]],
     exp |-> payload.exp]

\* JSON.stringify(payload): members whose value is undefined are left out
JsonStringify(payload) ==
    [s |-> [k \in {x \in StringKeys : payload[x] # Undefined} |-> payload[k]],
     exp |-> payload.exp]

\* JSON.parse(data), read as the code reads it: a member that is absent
\* reads as undefined
JsonParse(data) ==
    [t |-> IF "t" \in DOMAIN data.s THEN data.s["t"] ELSE Undefined,
     client_id |->
        IF "client_id" \in DOMAIN data.s THEN data.s["client_id"] ELSE Undefined,
     code_challenge |->
        IF "code_challenge" \in DOMAIN data.s
        THEN data.s["code_challenge"] ELSE Undefined,
     code_challenge_method |->
        IF "code_challenge_method" \in DOMAIN data.s
        THEN data.s["code_challenge_method"] ELSE Undefined,
     redirect_uri |->
        IF "redirect_uri" \in DOMAIN data.s
        THEN data.s["redirect_uri"] ELSE Undefined,
     exp |-> data.exp]

\* crypto.createHmac("sha256", key).update(data).digest("hex"): an ideal MAC,
\* 64 hexadecimal characters determined by exactly (key, data)
Hmac(key, data) == [len |-> HEX_DIGEST_LEN, key |-> key, data |-> data]

\* Buffer.from(JSON.stringify({d, h})).toString("base64url").  A token string
\* is an envelope plus `slack`: the part of the string the base64url decoder
\* does not read (the unused low bits of the final character, the choice
\* between `-`/`_` and `+`/`/`).  The encoder emits slack 0.
Base64urlEncode(envelope) ==
    [shape |-> "envelope", d |-> envelope.d, h |-> envelope.h, slack |-> 0]

\* JSON.parse(Buffer.from(token, "base64url").toString()): the envelope,
\* whatever the slack
Base64urlDecode(tok) == [d |-> tok.d, h |-> tok.h]

sign(payload, key) ==
    LET data == JsonStringify(payload)
        hmac == Hmac(key, data)
    IN Base64urlEncode([d |-> data, h |-> hmac])

\* verify returns null
Null ==
    [t |-> "null", client_id |-> Undefined, code_challenge |-> Undefined,
     code_challenge_method |-> Undefined, redirect_uri |-> Undefined, exp |-> 0]

\* crypto.timingSafeEqual(a, b): throws when the lengths differ
TimingSafeEqualThrows(a, b) == a.len # b.len
\* TimingSafeEqual with the comparison's result ignored
TimingSafeEqualSkipped(a, b) == TRUE

TimingSafeEqual(a, b) == a = b

\* Expired with the deadline never enforced
ExpiredNever(payload, t) == FALSE

\* the expiry test of verify: `payload.exp && Date.now() > payload.exp`
Expired(payload, t) == payload.exp # 0 /\ t > payload.exp

\* an exception raised inside the try block of verify
Raised == [Null EXCEPT !.t = "raised"]

\* data that is JSON text but no object: `null`, and a number
NullText == [s |-> [k \in {"json"} |-> "null"], exp |-> 0]
NumberText == [s |-> [k \in {"json"} |-> "5"], exp |-> 0]

\* the try block of verify, lines 21-35.  Buffer.from of a non-string,
\* JSON.parse of bytes that are no JSON, update() or Buffer.from of a member
\* the envelope lacks, timingSafeEqual of unequal lengths and `.exp` of null
\* all throw; a number has no `exp` and is returned as it is.
TryVerify(tok, t, key) ==
    IF tok.shape # "envelope" THEN Raised
    ELSE LET e == Base64urlDecode(tok)
             expected == Hmac(key, e.d)
         IN IF TimingSafeEqualThrows(e.h, expected) THEN Raised
            ELSE IF ~TimingSafeEqual(e.h, expected) THEN Null
            ELSE IF e.d = NullText THEN Raised
            ELSE LET payload == JsonParse(e.d)
                 IN IF Expired(payload, t) THEN Null ELSE payload

\* Catch that lets the exception through
CatchNothing(v) == v

\* the catch block of verify, lines 36-38
Catch(v) == IF v = Raised THEN Null ELSE v

verify(tok, t, key) == Catch(TryVerify(tok, t, key))

\* AuthCodePayload with a deadline one millisecond late
AuthCodePayloadLate(client_id, code_challenge, code_challenge_method, redirect_uri, t) ==
    [t |-> "code", client_id |-> client_id,
     code_challenge |-> code_challenge,
     code_challenge_method |-> code_challenge_method,
     redirect_uri |-> redirect_uri,
     exp |-> t + CODE_TTL + 1]

\* the object createAuthCode hands to sign
AuthCodePayload(client_id, code_challenge, code_challenge_method, redirect_uri, t) ==
    [t |-> "code", client_id |-> client_id,
     code_challenge |-> code_challenge,
     code_challenge_method |-> code_challenge_method,
     redirect_uri |-> redirect_uri,
     exp |-> t + CODE_TTL]

createAuthCode(client_id, code_challenge, code_challenge_method, redirect_uri, t, key) ==
    sign(AuthCodePayload(client_id, code_challenge, code_challenge_method,
                         redirect_uri, t), key)

\* verifyAuthCode that refuses a code once it has been exchanged
verifyAuthCodeOnce(c, t, key) ==
    LET payload == verify(c, t, key)
    IN IF \E f \in DOMAIN flows : flows[f].code = c /\ flows[f].n >= 1 THEN Null
       ELSE IF payload # Null /\ payload.t = "code" THEN payload ELSE Null

verifyAuthCode(c, t, key) ==
    LET payload == verify(c, t, key)
    IN IF payload # Null /\ payload.t = "code" THEN payload ELSE Null

\* AccessTokenPayload with the lifetime of a code
AccessTokenPayloadShort(client_id, t) ==
    [t |-> "access", client_id |-> client_id,
     code_challenge |-> Undefined,
     code_challenge_method |-> Undefined,
     redirect_uri |-> Undefined,
     exp |-> t + CODE_TTL]

\* the object createAccessToken hands to sign
AccessTokenPayload(client_id, t) ==
    [t |-> "access", client_id |-> client_id,
     code_challenge |-> Undefined,
     code_challenge_method |-> Undefined,
     redirect_uri |-> Undefined,
     exp |-> t + ACCESS_TTL]

createAccessToken(client_id, t, key) == sign(AccessTokenPayload(client_id, t), key)

\* verifyAccessToken without the test of the kind
verifyAccessTokenAnyKind(tok, t, key) == verify(tok, t, key)

verifyAccessToken(tok, t, key) ==
    LET payload == verify(tok, t, key)
    IN IF payload # Null /\ payload.t = "access" THEN payload ELSE Null

---------------------------------------------------------------------------
(* HTTP responses *)

Falsy(v) == v \in {Undefined, Empty}

\* what no response field was set to.  payload is the result of a call of a
\* verifier; signed is the payload the handler had signed.
BaseRes ==
    [payload |-> Null, signed |-> Null,
     status |-> 0, kind |-> "none", error |-> Undefined,
     error_description |-> Undefined, location |-> Undefined,
     code |-> NoToken, state |-> Undefined, access_token |-> NoToken,
     token_type |-> Undefined, expires_in |-> 0, bearer |-> Undefined,
     client_id |-> Undefined, token_endpoint_auth_method |-> Undefined,
     document |-> Undefined,
     cors |-> FALSE, forwarded |-> FALSE, closed |-> FALSE]

\* res.status(s).json({error})
JsonError(s, err, cors) ==
    [BaseRes EXCEPT !.status = s, !.kind = "json", !.error = err, !.cors = cors]

\* res.status(204).end()
NoContent(cors) == [BaseRes EXCEPT !.status = 204, !.kind = "end", !.cors = cors]

\* the handler threw and nothing caught it: the platform answers 500 with a
\* body of its own, which is no JSON error of the handler
Thrown(cors) == [BaseRes EXCEPT !.status = 500, !.kind = "thrown", !.cors = cors]

\* UrlParses that fails once the server has issued a code
UrlParsesOnce(u) == u = ValidRedirect /\ code = NoToken

\* new URL(u) throws for a string that is no absolute URL
UrlParses(u) == u = ValidRedirect

---------------------------------------------------------------------------
(* GET /oauth/authorize: src/unnamed/part_002 *)

\* MissingAuthorizeParams that also misses a client_id /register never returned
MissingAuthorizeParamsUnregistered(r) ==
    \/ Falsy(r.client_id) \/ Falsy(r.redirect_uri) \/ Falsy(r.code_challenge)
    \/ r.client_id \notin registered

\* MissingAuthorizeParams that looks at client_id alone
MissingAuthorizeParamsLax(r) == Falsy(r.client_id)

\* line 20: !client_id || !redirect_uri || !code_challenge
MissingAuthorizeParams(r) ==
    Falsy(r.client_id) \/ Falsy(r.redirect_uri) \/ Falsy(r.code_challenge)

authorizeHandler(r, t, e) ==
    IF r.method = "OPTIONS" THEN NoContent(TRUE)
    ELSE IF r.response_type # "code"
    THEN JsonError(400, "unsupported_response_type", TRUE)
    ELSE IF MissingAuthorizeParams(r)
    THEN JsonError(400, "invalid_request", TRUE)
    ELSE LET method == IF Falsy(r.code_challenge_method) THEN "S256"
                       ELSE r.code_challenge_method
             c == createAuthCode(r.client_id, r.code_challenge, method,
                                 r.redirect_uri, t, SIGNING_KEY(e))
         IN IF ~UrlParses(r.redirect_uri) THEN Thrown(TRUE)
            ELSE [BaseRes EXCEPT !.status = 302, !.kind = "redirect",
                                 !.location = r.redirect_uri, !.code = c,
                                 !.state = IF Falsy(r.state) THEN Undefined ELSE r.state,
                                 !.signed = AuthCodePayload(r.client_id,
                                     r.code_challenge, method, r.redirect_uri, t),
                                 !.cors = TRUE]

---------------------------------------------------------------------------
(* POST /oauth/token: src/unnamed/part_003 *)

\* a value of the JSON body that is no string (a number)
NonString == "<number>"

\* `!code` for a token-valued field
FalsyToken(c) == c.shape = "undefined"

\* PkceMatches that applies the transform the code's method names
PkceMatchesByMethod(code_verifier, payload) ==
    IF payload.code_challenge_method = "plain"
    THEN code_verifier = payload.code_challenge
    ELSE Sha256Base64url(code_verifier) = payload.code_challenge

\* PkceMatches with the comparison's result ignored
PkceMatchesAlways(code_verifier, payload) == TRUE

\* the PKCE comparison of lines 29-34
PkceMatches(code_verifier, payload) ==
    Sha256Base64url(code_verifier) = payload.code_challenge

\* MintedClientId read from a variable every request shares: the client_id
\* of the code issued last
MintedClientIdShared(r, payload) == codeSigned.client_id

\* line 41: the client_id the access token is minted for
MintedClientId(r, payload) == r.client_id

\* tokenHandler that compares redirect_uri with the one the code was issued for
tokenHandlerRedirectChecked(r, t, e) ==
    IF r.method = "OPTIONS" THEN NoContent(TRUE)
    ELSE IF r.method # "POST" THEN JsonError(405, "method_not_allowed", TRUE)
    ELSE IF ~r.hasBody THEN Thrown(TRUE)
    ELSE IF r.grant_type # "authorization_code"
    THEN JsonError(400, "unsupported_grant_type", TRUE)
    ELSE IF FalsyToken(r.code) \/ Falsy(r.code_verifier) \/ Falsy(r.client_id)
    THEN JsonError(400, "invalid_request", TRUE)
    ELSE LET payload == verifyAuthCode(r.code, t, SIGNING_KEY(e))
         IN IF payload = Null THEN JsonError(400, "invalid_grant", TRUE)
            ELSE IF r.redirect_uri # payload.redirect_uri
            THEN JsonError(400, "invalid_grant", TRUE)
            ELSE IF r.code_verifier = NonString THEN Thrown(TRUE)
            ELSE IF ~PkceMatches(r.code_verifier, payload)
            THEN [JsonError(400, "invalid_grant", TRUE)
                    EXCEPT !.error_description = "Code verifier mismatch"]
            ELSE [BaseRes EXCEPT !.status = 200, !.kind = "json",
                    !.access_token =
                        createAccessToken(MintedClientId(r, payload), t, SIGNING_KEY(e)),
                    !.signed = AccessTokenPayload(MintedClientId(r, payload), t),
                    !.token_type = "Bearer", !.expires_in = EXPIRES_IN,
                    !.cors = TRUE]

tokenHandler(r, t, e) ==
    IF r.method = "OPTIONS" THEN NoContent(TRUE)
    ELSE IF r.method # "POST" THEN JsonError(405, "method_not_allowed", TRUE)
    ELSE IF ~r.hasBody THEN Thrown(TRUE)      \* destructuring req.body throws
    ELSE IF r.grant_type # "authorization_code"
    THEN JsonError(400, "unsupported_grant_type", TRUE)
    ELSE IF FalsyToken(r.code) \/ Falsy(r.code_verifier) \/ Falsy(r.client_id)
    THEN JsonError(400, "invalid_request", TRUE)
    ELSE LET payload == verifyAuthCode(r.code, t, SIGNING_KEY(e))
         IN IF payload = Null THEN JsonError(400, "invalid_grant", TRUE)
            ELSE IF r.code_verifier = NonString THEN Thrown(TRUE)  \* hash.update throws
            ELSE IF ~PkceMatches(r.code_verifier, payload)
            THEN [JsonError(400, "invalid_grant", TRUE)
                    EXCEPT !.error_description = "Code verifier mismatch"]
            ELSE [BaseRes EXCEPT !.status = 200, !.kind = "json",
                    !.access_token =
                        createAccessToken(MintedClientId(r, payload), t, SIGNING_KEY(e)),
                    !.signed = AccessTokenPayload(MintedClientId(r, payload), t),
                    !.token_type = "Bearer", !.expires_in = EXPIRES_IN,
                    !.cors = TRUE]

---------------------------------------------------------------------------
(* POST /api/oauth/token, the static-code exchange: src/api/oauth/token.js *)

\* getBodyValue(req, key): undefined when the request has no body
getBodyValue(r, v) == IF ~r.hasBody THEN Undefined ELSE v

staticTokenHandler(r, e) ==
    IF Falsy(e.MCP_ACCESS_TOKEN) THEN JsonError(500, "Missing required env var: MCP_ACCESS_TOKEN", FALSE)
    ELSE IF r.method # "POST" THEN JsonError(405, "Method not allowed. Use POST.", FALSE)
    ELSE LET grantType == getBodyValue(r, r.grant_type)
             c == getBodyValue(r, r.code)
         IN IF ~Falsy(grantType) /\ grantType # "authorization_code"
            THEN JsonError(400, "Unsupported grant_type. Use authorization_code.", FALSE)
            ELSE IF c # STATIC_AUTH_CODE
            THEN JsonError(400, "Invalid authorization code.", FALSE)
            ELSE [BaseRes EXCEPT !.status = 200, !.kind = "json",
                                 !.bearer = e.MCP_ACCESS_TOKEN,
                                 !.token_type = "Bearer"]

---------------------------------------------------------------------------
(* POST /oauth/register: src/api/oauth-register.js, lines 1-22 *)

\* values crypto.randomUUID() returns
UUIDs == {"6fa459ea-ee8a-4ca4-894e-db77e160355e"}

\* uuid is what crypto.randomUUID() returns to this call
registerHandler(r, uuid) ==
    IF r.method = "OPTIONS" THEN NoContent(TRUE)
    ELSE IF r.method # "POST" THEN JsonError(405, "method_not_allowed", TRUE)
    ELSE IF ~r.hasBody THEN Thrown(TRUE)      \* destructuring req.body throws
    ELSE [BaseRes EXCEPT !.status = 201, !.kind = "json",
                         !.client_id = uuid,
                         !.token_endpoint_auth_method = "none",
                         !.cors = TRUE]

---------------------------------------------------------------------------
(* The metadata documents: src/api/oauth-metadata.js (authorization server) *)
(* and src/api/oauth-register.js, lines 24-37 (protected resource)         *)

\* res.json(document), whatever the method is, once OPTIONS is answered
metadataHandler(r) ==
    IF r.method = "OPTIONS" THEN NoContent(TRUE)
    ELSE [BaseRes EXCEPT !.status = 200, !.kind = "json",
                         !.document = "authorization-server", !.cors = TRUE]

protectedResourceHandler(r) ==
    IF r.method = "OPTIONS" THEN NoContent(TRUE)
    ELSE [BaseRes EXCEPT !.status = 200, !.kind = "json",
                         !.document = "protected-resource", !.cors = TRUE]

---------------------------------------------------------------------------
(* POST /mcp, the streamable-HTTP MCP endpoint: src/unnamed/part_005 *)

\* BASE_URL = ensureApiBasePath(normalizeBaseUrl(env || "")) is empty exactly
\* when the variable is unset or empty
BaseUrlMissing(e) == Falsy(e.FRESHSALES_BASE_URL)

\* The handler never reads r.authorization.  `fails` is the transport
\* throwing while it handles the request.
mcpHandler(r, e, fails) ==
    IF Falsy(e.FRESHSALES_API_KEY) \/ BaseUrlMissing(e)
    THEN JsonError(500, "Missing required env vars: FRESHSALES_API_KEY and/or FRESHSALES_BASE_URL", FALSE)
    ELSE IF r.method # "POST" THEN JsonError(405, "Method not allowed. Use POST.", FALSE)
    ELSE IF fails
    THEN [JsonError(500, "Internal server error", FALSE) EXCEPT !.closed = TRUE]
    ELSE [BaseRes EXCEPT !.status = 200, !.kind = "json",
                         !.forwarded = (r.rpc = "tools/call")]

---------------------------------------------------------------------------
(* What a client can send *)

AttackerKey == "attacker-key"

\* the same envelope in another string: a character the decoder does not read
Reencoded(tok) == [tok EXCEPT !.slack = 1]
\* the data changed (a later deadline), the MAC kept
Extended(tok) == [tok EXCEPT !.d.exp = @ + ACCESS_TTL]
\* the data changed (the other kind), the MAC kept
Swapped(tok) ==
    [tok EXCEPT !.d.s["t"] = IF @ = "code" THEN "access" ELSE "code"]
\* the MAC changed: one digit altered, or the last digit dropped
Altered(tok) == [tok EXCEPT !.h.key = "altered"]
Truncated(tok) == [tok EXCEPT !.h.len = HEX_DIGEST_LEN - 1]
\* the data changed and signed again under a key that is not the server's
Resigned(tok) == [Extended(tok) EXCEPT !.h = Hmac(AttackerKey, Extended(tok).d)]

\* strings a client can derive from a token it holds without the signing key
Variants(tok) ==
    IF tok.shape # "envelope" THEN {}
    ELSE {Reencoded(tok), Extended(tok), Swapped(tok), Altered(tok),
          Truncated(tok), Resigned(tok)}

Held == {code, token} \ {NoToken}

Presentable == Held \cup UNION {Variants(k) : k \in Held} \cup {NoToken, NotJson}

\* an envelope that lacks `d` or `h`
PartialEnvelope == [shape |-> "partial", d |-> EmptyData, h |-> NoMac, slack |-> 0]

\* JSON text that is no object, under a MAC made with `key`
SignedText(data, key) == Base64urlEncode([d |-> data, h |-> Hmac(key, data)])

\* arguments of verify that are no signed payload: a value that is no
\* string, a string that is no JSON envelope, an envelope that lacks a member,
\* a MAC of another length, data that is no object
Malformed ==
    {NoToken, NotJson, PartialEnvelope}
        \cup {Truncated(k) : k \in Held}
        \cup {SignedText(d, k) : d \in {NullText, NumberText},
                                 k \in {SIGNING_KEY(env), AttackerKey}}

\* what a client sends as `code`, and as bearer token
PresentableCodes ==
    Held \cup {NoToken}
         \cup (IF code = NoToken THEN {} ELSE {Reencoded(code), Extended(code)})

PresentableBearers == Held \cup {NoToken}

\* (code_challenge, code_challenge_method) as clients send them: the S256
\* challenge with the method left out, the plain challenge with method plain
ChallengePairs ==
    { <<Sha256Base64url(Verifier1), Undefined>>, <<Verifier1, "plain">> }

\* well-formed authorization requests of clients that use S256
FlowAuthorizeRequests ==
    { [endpoint |-> "authorize",
       method |-> "GET", response_type |-> "code", client_id |-> c,
       redirect_uri |-> ValidRedirect, state |-> "xyz",
       code_challenge |-> Sha256Base64url(Verifier1),
       code_challenge_method |-> Undefined] : c \in ClientIds }

\* authorization requests with any field absent or wrong
AuthorizeRequests ==
    { [endpoint |-> "authorize",
       method |-> "GET", response_type |-> rt, client_id |-> c,
       redirect_uri |-> u, state |-> st,
       code_challenge |-> p[1], code_challenge_method |-> p[2]] :
      rt \in {"code", "token"}, c \in ClientIds \cup {Undefined},
      u \in {ValidRedirect, BadRedirect, Undefined}, st \in {"xyz", Undefined},
      p \in ChallengePairs \cup {<<Undefined, Undefined>>} }
    \cup
    { [r EXCEPT !.method = m] : r \in FlowAuthorizeRequests, m \in {"OPTIONS", "POST"} }

\* exchanges of a held token by a client that sends every field
FlowTokenRequests ==
    [endpoint : {"token"}, method : {"POST"}, hasBody : {TRUE},
     grant_type : {"authorization_code"},
     code : Held,
     redirect_uri : {ValidRedirect},
     client_id : ClientIds,
     code_verifier : Verifiers]

\* token requests with any field absent or wrong
TokenRequests ==
    [endpoint : {"token"}, method : {"POST"}, hasBody : {TRUE},
     grant_type : {"authorization_code", "refresh_token", Undefined},
     code : PresentableCodes,
     redirect_uri : {ValidRedirect, Undefined},
     client_id : ClientIds \cup {Undefined},
     code_verifier : Verifiers \cup {Undefined, NonString}]
    \cup
    [endpoint : {"token"}, method : {"POST", "GET", "OPTIONS"}, hasBody : {FALSE},
     grant_type : {Undefined}, code : {NoToken}, redirect_uri : {Undefined},
     client_id : {Undefined}, code_verifier : {Undefined}]

StaticTokenRequests ==
    [endpoint : {"static_token"}, method : {"POST"}, hasBody : {TRUE},
     grant_type : {"authorization_code", "refresh_token", Undefined},
     code : {STATIC_AUTH_CODE, "other"}]
    \cup
    [endpoint : {"static_token"}, method : {"POST", "OPTIONS"}, hasBody : {FALSE},
     grant_type : {Undefined}, code : {Undefined}]

\* `fails` is the transport throwing while it handles the request
McpRequests ==
    [endpoint : {"mcp"}, method : {"POST", "GET"},
     authorization : PresentableBearers, rpc : {"tools/call", "tools/list"},
     fails : BOOLEAN]

\* exchanges of a held token, and the requests that come without a body
EndpointTokenRequests ==
    FlowTokenRequests \cup {r \in TokenRequests : ~r.hasBody}

\* authorization requests of clients that name a method: the challenge is
\* the S256 transform of the verifier or the verifier itself
MethodAuthorizeRequests ==
    { [r EXCEPT !.code_challenge = ch, !.code_challenge_method = m] :
        r \in FlowAuthorizeRequests,
        ch \in {Sha256Base64url(Verifier1), Verifier1},
        m \in {"plain", "S256", Undefined} }

\* what a /token request carries as redirect_uri: the one of the code,
\* another one, none
OtherRedirect == "https://other.example/cb"
RedirectUris == {ValidRedirect, OtherRedirect, Undefined}

\* exchanges of a held token with any redirect_uri
RedirectTokenRequests ==
    { [r EXCEPT !.redirect_uri = u] :
        r \in FlowTokenRequests, u \in RedirectUris }

RegisterRequests ==
    [endpoint : {"register"}, method : {"POST", "GET", "OPTIONS"},
     hasBody : BOOLEAN]

MetadataRequests ==
    [endpoint : {"metadata", "protected_resource"},
     method : {"GET", "POST", "OPTIONS"}]

\* the flow of a client that uses the client_id it likes, one that /register
\* can return included
RegistrationAuthorizeRequests ==
    { [r EXCEPT !.client_id = c] :
        r \in FlowAuthorizeRequests, c \in ClientIds \cup UUIDs }

RegistrationTokenRequests ==
    { [r EXCEPT !.client_id = c] :
        r \in FlowTokenRequests, c \in ClientIds \cup UUIDs }

\* calls of verifyAuthCode, verifyAccessToken and verify
VerifyCalls ==
    [endpoint : {"verify"}, tok : Presentable, kind : {"code", "access", "any"}]

NoRequest == [endpoint |-> "none"]

---------------------------------------------------------------------------
(* src/freshsales-tools.js: tool arguments as JavaScript values *)

\* text is a sequence of one-character strings
Digits == <<"0", "1", "2", "3", "4", "5", "6", "7", "8", "9">>

IsDigit(c) == \E i \in 1..10 : Digits[i] = c

DigitValue(c) == (CHOOSE i \in 1..10 : Digits[i] = c) - 1

IsSpace(c) == c = " "

\* String.prototype.trim
RECURSIVE TrimStart(_)
TrimStart(s) ==
    IF s # <<>> /\ IsSpace(Head(s)) THEN TrimStart(Tail(s)) ELSE s

RECURSIVE TrimEnd(_)
TrimEnd(s) ==
    IF s # <<>> /\ IsSpace(s[Len(s)])
    THEN TrimEnd(SubSeq(s, 1, Len(s) - 1))
    ELSE s

Trim(s) == TrimEnd(TrimStart(s))

\* JavaScript values: undefined, null, booleans, numbers (finite integers,
\* NaN, Infinity) and strings
JsValue(t, k, n, s) == [t |-> t, k |-> k, n |-> n, s |-> s]

JsUndefined == JsValue("undefined", "none", 0, <<>>)

JsNull == JsValue("null", "none", 0, <<>>)

JsTrue == JsValue("boolean", "true", 1, <<>>)

JsNumber(n) == JsValue("number", "finite", n, <<>>)

JsNaN == JsValue("number", "NaN", 0, <<>>)

JsInfinity == JsValue("number", "Infinity", 0, <<>>)

JsString(s) == JsValue("string", "none", 0, s)

\* the value of a run of decimal digits
RECURSIVE DecimalValue(_)
DecimalValue(s) ==
    IF s = <<>> THEN 0
    ELSE 10 * DecimalValue(SubSeq(s, 1, Len(s) - 1)) + DigitValue(s[Len(s)])

AllDigits(s) == s # <<>> /\ \A i \in 1..Len(s) : IsDigit(s[i])

\* Number(string) for the decimal integer forms: surrounding white space is
\* dropped, the empty string is 0, an optional sign and digits are the
\* integer, anything else is NaN
StringToNumber(s) ==
    LET t == Trim(s)
    IN  IF t = <<>> THEN JsNumber(0)
        ELSE IF AllDigits(t) THEN JsNumber(DecimalValue(t))
        ELSE IF Head(t) = "-" /\ AllDigits(Tail(t))
             THEN JsNumber(0 - DecimalValue(Tail(t)))
        ELSE IF Head(t) = "+" /\ AllDigits(Tail(t))
             THEN JsNumber(DecimalValue(Tail(t)))
        ELSE JsNaN

\* Number(value)
ToNumber(v) ==
    IF v.t = "number" THEN v
    ELSE IF v.t = "string" THEN StringToNumber(v.s)
    ELSE IF v.t = "boolean" THEN JsNumber(v.n)
    ELSE IF v.t = "null" THEN JsNumber(0)
    ELSE JsNaN

\* Number.isFinite
IsFinite(v) == v.t = "number" /\ v.k = "finite"

\* !v
JsFalsy(v) ==
    \/ v.t \in {"undefined", "null"}
    \/ v.t = "number" /\ (v.k = "NaN" \/ v.n = 0)
    \/ v.t = "string" /\ v.s = <<>>
    \/ v.t = "boolean" /\ v.k # "true"

isDefined(v) == v.t \notin {"undefined", "null"}

\* lines 96-101
parseId(value) ==
    IF ~isDefined(value) THEN JsNull
    ELSE IF value.t = "number" /\ IsFinite(value) THEN value
    ELSE LET num == ToNumber(value)
         IN  IF IsFinite(num) /\ num.n > 0 THEN num ELSE JsNull

\* the ids a client sends
IdValues ==
    {JsUndefined, JsNull, JsTrue, JsNaN, JsInfinity,
     JsNumber(7), JsNumber(0), JsNumber(0 - 7),
     JsString(<<"7">>), JsString(<<"4", "2">>), JsString(<<" ", "7", " ">>),
     JsString(<<"0">>), JsString(<<"-", "7">>), JsString(<<>>),
     JsString(<<"a", "b", "c">>), JsString(<<"7", "a">>)}

\* how the CRM backend answers a request: with a result, with an HTTP error
\* that has a body, with an HTTP error without one, or not at all
BackendOutcomes == {"ok", "http_error", "http_error_no_body", "network_error"}

BackendBody == "{\"errors\":{\"code\":404,\"message\":[\"Record not found\"]}}"

\* the error axios rejects with
AxiosError(backend) ==
    [message |-> IF backend = "network_error" THEN "Network Error"
                 ELSE "Request failed with status code 404",
     hasData |-> backend = "http_error",
     data |-> IF backend = "http_error" THEN BackendBody ELSE Empty]

NoError == [message |-> Empty, hasData |-> FALSE, data |-> Empty]

\* new Error(message)
Error(message) == [message |-> message, hasData |-> FALSE, data |-> Empty]

UnknownTool == "freshsales_suite_no_such_tool"

ToolNames ==
    {"freshsales_suite_delete_contact", "freshsales_suite_list_contacts",
     "freshsales_suite_delete_note", "freshsales_suite_list_lists",
     UnknownTool}

\* the tools whose request is addressed by an id that went through parseId
IdTools ==
    {"freshsales_suite_delete_contact", "freshsales_suite_list_contacts",
     "freshsales_suite_delete_note"}

\* a request to the CRM backend
Request(method, resource, id) ==
    [method |-> method, resource |-> resource, id |-> id]

\* the outcome of runTool: the requests it made, and its result or the error
\* it threw
Returned(requests) ==
    [threw |-> FALSE, error |-> NoError, requests |-> requests]

Threw(error, requests) ==
    [threw |-> TRUE, error |-> error, requests |-> requests]

\* a tool that makes one request
OneRequest(backend, request) ==
    IF backend = "ok" THEN Returned(<<request>>)
    ELSE Threw(AxiosError(backend), <<request>>)

\* a tool whose request is addressed by parseId(id)
IdRequest(backend, method, resource, arg, message) ==
    LET id == parseId(arg)
    IN  IF JsFalsy(id) THEN Threw(Error(message), <<>>)
        ELSE OneRequest(backend, Request(method, resource, id))

\* src/freshsales-tools.js lines 1008-1508
runTool(backend, name, arg) ==
    IF name = "freshsales_suite_delete_contact"
    THEN IdRequest(backend, "DELETE", "/contacts", arg,
                   "id must be a valid numeric ID")
    ELSE IF name = "freshsales_suite_list_contacts"
    THEN IdRequest(backend, "GET", "/contacts/view", arg,
                   "view_id is required")
    ELSE IF name = "freshsales_suite_delete_note"
    THEN IdRequest(backend, "DELETE", "/notes", arg, "id is required")
    ELSE IF name = "freshsales_suite_list_lists"
    THEN OneRequest(backend, Request("GET", "/lists", JsUndefined))
    ELSE Threw(Error("Unknown tool: " \o name), <<>>)

\* error.message, whatever the backend answered
ErrorMessageOnly(error) == error.message

\* error.response?.data ?? error.message
ErrorMessage(error) == IF error.hasData THEN error.data ELSE error.message

\* what the CallTool handler hands to the client: a tool result, or a
\* rejection
ToolResult(success, error) ==
    [rejected |-> FALSE, success |-> success, error |-> error]

\* src/unnamed/part_005 lines 46-55
callToolHandler(backend, name, arg) ==
    LET run == runTool(backend, name, arg)
    IN  IF run.threw THEN ToolResult(FALSE, ErrorMessage(run.error))
        ELSE ToolResult(TRUE, Empty)

---------------------------------------------------------------------------
(* src/freshsales-tools.js lines 9-20: the base URL of the CRM backend *)

UpperCase == <<"A", "C", "H", "I", "L", "M", "P", "R", "S", "T">>

LowerCase == <<"a", "c", "h", "i", "l", "m", "p", "r", "s", "t">>

\* the letter a case-insensitive pattern compares
Lower(c) ==
    IF \E i \in 1..Len(UpperCase) : UpperCase[i] = c
    THEN LowerCase[CHOOSE i \in 1..Len(UpperCase) : UpperCase[i] = c]
    ELSE c

LowerText(s) == [i \in 1..Len(s) |-> Lower(s[i])]

\* /^prefix/i.test(s)
StartsWithI(s, prefix) ==
    /\ Len(s) >= Len(prefix)
    /\ LowerText(SubSeq(s, 1, Len(prefix))) = prefix

\* /suffix$/i.test(s)
EndsWithI(s, suffix) ==
    /\ Len(s) >= Len(suffix)
    /\ LowerText(SubSeq(s, Len(s) - Len(suffix) + 1, Len(s))) = suffix

Http == <<"h", "t", "t", "p", ":", "/", "/">>

Https == <<"h", "t", "t", "p", "s", ":", "/", "/">>

ApiPath == <<"/", "a", "p", "i">>

CrmSalesApiPath ==
    <<"/", "c", "r", "m", "/", "s", "a", "l", "e", "s", "/", "a", "p", "i">>

\* s.replace(/\/$/, ""): one slash at the end is dropped
DropTrailingSlash(s) ==
    IF s # <<>> /\ s[Len(s)] = "/" THEN SubSeq(s, 1, Len(s) - 1) ELSE s

\* lines 9-14
normalizeBaseUrl(value) ==
    LET trimmed == DropTrailingSlash(Trim(value))
    IN  IF trimmed = <<>> THEN <<>>
        ELSE IF StartsWithI(trimmed, Http) \/ StartsWithI(trimmed, Https)
        THEN trimmed
        ELSE Https \o trimmed

\* lines 16-20
ensureApiBasePath(value) ==
    IF value = <<>> THEN <<>>
    ELSE IF EndsWithI(value, CrmSalesApiPath) \/ EndsWithI(value, ApiPath)
    THEN value
    ELSE value \o CrmSalesApiPath

\* the slashes an operator leaves at the end of the configured base URL
MaxSlashes == 2

\* applications of the normalising functions that are followed
MaxApplications == 3

RECURSIVE Slashes(_)
Slashes(n) == IF n = 0 THEN <<>> ELSE <<"/">> \o Slashes(n - 1)

Schemes ==
    {<<>>, Http, Https,
     <<"H", "T", "T", "P", "S", ":", "/", "/">>,
     <<"h", "t", "t", "p", "s", ":", "/">>}

Hosts == {<<>>, <<"a">>, <<"a", ".", "i", "o">>}

Paths == {<<>>, ApiPath, CrmSalesApiPath, <<"/", "A", "P", "I">>, <<"/", "x">>}

Blanks == {<<>>, <<" ">>}

\* the values FRESHSALES_BASE_URL is set to; unset reads as the empty string
BaseUrls ==
    {lead \o scheme \o host \o path \o Slashes(n) \o trail :
        lead \in Blanks, scheme \in Schemes, host \in Hosts, path \in Paths,
        n \in 0..MaxSlashes, trail \in Blanks}

\* no tool has been called
NoCall ==
    [name |-> Empty, id |-> JsUndefined, backend |-> "ok", requests |-> <<>>,
     threw |-> FALSE, result |-> ToolResult(TRUE, Empty)]

\* the base URL has not been read
NoUrl == [value |-> <<>>, last |-> "none", n |-> 0]

\* no POST to the MCP endpoint is being handled; n counts those handled
NoSession ==
    [pc |-> "idle", server |-> "none", transport |-> "none",
     listener |-> FALSE, closeFired |-> FALSE, n |-> 0]

\* a client that has not started its flow; n counts its successful exchanges
NoFlow == [code |-> NoToken, token |-> NoToken, n |-> 0]

\* the verifier each client of a concurrent flow made up for itself
VerifierOf(c) == IF c = "abc" THEN Verifier1 ELSE Verifier2

\* the requests of the flow of client c: its own client_id, the challenge of
\* its own verifier, the code it was redirected with
FlowAuthorizeRequest(c) ==
    [endpoint |-> "authorize",
     method |-> "GET", response_type |-> "code", client_id |-> c,
     redirect_uri |-> ValidRedirect, state |-> c,
     code_challenge |-> Sha256Base64url(VerifierOf(c)),
     code_challenge_method |-> "S256"]

FlowTokenRequest(c) ==
    [endpoint |-> "token", method |-> "POST", hasBody |-> TRUE,
     grant_type |-> "authorization_code",
     code |-> flows[c].code,
     redirect_uri |-> ValidRedirect,
     client_id |-> c,
     code_verifier |-> VerifierOf(c)]

EnvConfigs ==
    { [FRESHSALES_API_KEY |-> "operator-secret",
       FRESHSALES_BASE_URL |-> "acme.myfreshworks.com",
       MCP_ACCESS_TOKEN |-> "static-token"],
      [FRESHSALES_API_KEY |-> Undefined,
       FRESHSALES_BASE_URL |-> "acme.myfreshworks.com",
       MCP_ACCESS_TOKEN |-> Undefined] }

---------------------------------------------------------------------------
(* The state machine *)

Init ==
    /\ env \in EnvConfigs
    /\ now = StartTime
    /\ ticks = 0
    /\ code = NoToken
    /\ token = NoToken
    /\ codeSigned = Null
    /\ tokenSigned = Null
    /\ flows = [c \in ClientIds |-> NoFlow]
    /\ registered = {}
    /\ session = NoSession
    /\ tool = NoCall
    /\ url = NoUrl
    /\ req = NoRequest
    /\ res = BaseRes

\* a deployment started with every variable set
InitConfigured == Init /\ ~Falsy(env.FRESHSALES_API_KEY)

\* the last instant the clock is followed to: one access-token lifetime and
\* one code lifetime after the start
Horizon == StartTime + ACCESS_TTL + CODE_TTL + MaxTicks

Idle == req = NoRequest

\* the clock advances between requests; the steps are the ones that reach and
\* pass a deadline
Tick ==
    /\ Idle
    /\ ticks < MaxTicks
    /\ \E d \in {1, CODE_TTL, ACCESS_TTL} :
          /\ now + d <= Horizon
          /\ now' = now + d
    /\ ticks' = ticks + 1
    /\ UNCHANGED <<tool, url, session, env, code, token, codeSigned, tokenSigned, flows, registered, req, res>>

\* a request to /oauth/authorize; the client keeps the code of a redirect
Authorize(requests) ==
    /\ Idle
    /\ \E r \in requests :
        /\ req' = r
        /\ res' = authorizeHandler(r, now, env)
        /\ code' = IF res'.status = 302 THEN res'.code ELSE code
        /\ codeSigned' = IF res'.status = 302 THEN res'.signed ELSE codeSigned
    /\ UNCHANGED <<tool, url, session, env, now, ticks, token, tokenSigned, flows, registered>>

\* a request to /oauth/token; the client keeps the access token of a 200
Token(requests) ==
    /\ Idle
    /\ \E r \in requests :
        /\ req' = r
        /\ res' = tokenHandler(r, now, env)
        /\ token' = IF res'.status = 200 THEN res'.access_token ELSE token
        /\ tokenSigned' = IF res'.status = 200 THEN res'.signed ELSE tokenSigned
    /\ UNCHANGED <<tool, url, session, env, now, ticks, code, codeSigned, flows, registered>>

\* a request to the static-code token endpoint
StaticToken ==
    /\ Idle
    /\ \E r \in StaticTokenRequests :
        /\ req' = r
        /\ res' = staticTokenHandler(r, env)
    /\ UNCHANGED <<tool, url, session, env, now, ticks, code, token, codeSigned, tokenSigned, flows, registered>>

\* a request to the MCP endpoint
Mcp ==
    /\ Idle
    /\ \E r \in McpRequests :
        /\ req' = r
        /\ res' = mcpHandler(r, env, r.fails)
    /\ UNCHANGED <<tool, url, session, env, now, ticks, code, token, codeSigned, tokenSigned, flows, registered>>

\* the verifier of a slot: verifyAuthCode, verifyAccessToken, or verify itself
Verifier(k, tok, t, key) ==
    CASE k = "code" -> verifyAuthCode(tok, t, key)
      [] k = "access" -> verifyAccessToken(tok, t, key)
      [] OTHER -> verify(tok, t, key)

\* a call of a verifier on a string a client can present
Verify ==
    /\ Idle
    /\ \E c \in VerifyCalls :
        /\ req' = c
        /\ res' = [BaseRes EXCEPT
                     !.payload = Verifier(c.kind, c.tok, now, SIGNING_KEY(env))]
    /\ UNCHANGED <<tool, url, session, env, now, ticks, code, token, codeSigned, tokenSigned, flows, registered>>

\* the response is delivered and the request ends: the server keeps nothing
Close ==
    /\ ~Idle
    /\ req' = NoRequest
    /\ res' = BaseRes
    /\ UNCHANGED <<tool, url, session, env, now, ticks, code, token, codeSigned, tokenSigned, flows, registered>>

\* a call of a verifier on an argument that is no signed payload
VerifyMalformed ==
    /\ Idle
    /\ \E k \in {"code", "access", "any"}, tok \in Malformed :
        /\ req' = [endpoint |-> "verify", tok |-> tok, kind |-> k]
        /\ res' = [BaseRes EXCEPT
                     !.payload = Verifier(k, tok, now, SIGNING_KEY(env))]
    /\ UNCHANGED <<tool, url, session, env, now, ticks, code, token, codeSigned, tokenSigned,
                   flows, registered>>

\* the keys a client can compute: one of its own making, and the hash of the
\* default that the source publishes
KnownKeys == {AttackerKey, DEFAULT_KEY}

\* the tokens the clients of the flows hold
FlowTokens ==
    UNION {{flows[c].code, flows[c].token} : c \in ClientIds} \ {NoToken}

\* what a client can build without the server's secret: payloads of its own
\* choice signed as sign does under a key it knows, and strings derived from
\* the tokens it was handed
Forgeries ==
    {sign(AccessTokenPayload("mallory", now), k) : k \in KnownKeys}
        \cup {sign(AuthCodePayload("mallory", Sha256Base64url(Verifier1), "S256",
                                   ValidRedirect, now), k) : k \in KnownKeys}
        \cup UNION {Variants(tok) : tok \in FlowTokens}

\* a client presents something it built to a verifier
Forge ==
    /\ Idle
    /\ \E k \in {"code", "access"}, tok \in Forgeries :
        /\ req' = [endpoint |-> "forge", tok |-> tok, kind |-> k]
        /\ res' = [BaseRes EXCEPT
                     !.payload = Verifier(k, tok, now, SIGNING_KEY(env))]
    /\ UNCHANGED <<tool, url, session, env, now, ticks, code, token, codeSigned, tokenSigned,
                   flows, registered>>

\* the CallTool handler of the generic tool servers: the tool runs against a
\* backend that answers, refuses with or without a body, or is unreachable
CallTool ==
    \E name \in ToolNames, id \in IdValues, backend \in BackendOutcomes :
        LET run == runTool(backend, name, id)
        IN  tool' = [name |-> name, id |-> id, backend |-> backend,
                     requests |-> run.requests,
                     threw |-> run.threw,
                     result |-> callToolHandler(backend, name, id)]
    /\ UNCHANGED <<env, now, ticks, code, token, codeSigned, tokenSigned,
                   flows, registered, session, url, req, res>>

\* src/unnamed/part_005 lines 15-18: process.env.FRESHSALES_BASE_URL is read
ReadBaseUrl ==
    /\ url.last = "none"
    /\ \E v \in BaseUrls : url' = [value |-> v, last |-> "read", n |-> 0]
    /\ UNCHANGED <<env, now, ticks, code, token, codeSigned, tokenSigned,
                   flows, registered, session, tool, req, res>>

\* normalizeBaseUrl is applied to the value
NormalizeBaseUrl ==
    /\ url.last # "none"
    /\ url.n < MaxApplications
    /\ url' = [value |-> normalizeBaseUrl(url.value),
               last |-> "normalizeBaseUrl", n |-> url.n + 1]
    /\ UNCHANGED <<env, now, ticks, code, token, codeSigned, tokenSigned,
                   flows, registered, session, tool, req, res>>

\* ensureApiBasePath is applied to the value
EnsureApiBasePath ==
    /\ url.last # "none"
    /\ url.n < MaxApplications
    /\ url' = [value |-> ensureApiBasePath(url.value),
               last |-> "ensureApiBasePath", n |-> url.n + 1]
    /\ UNCHANGED <<env, now, ticks, code, token, codeSigned, tokenSigned,
                   flows, registered, session, tool, req, res>>

\* lines 79-86: a POST reaches a configured MCP endpoint; the server and the
\* transport are created and connected, and handleRequest is awaited
McpAccept ==
    /\ session.pc \in {"idle", "done"}
    /\ session.n < MaxSessions
    /\ ~Falsy(env.FRESHSALES_API_KEY) /\ ~BaseUrlMissing(env)
    /\ session' = [pc |-> "handling", server |-> "open", transport |-> "open",
                   listener |-> FALSE, closeFired |-> FALSE,
                   n |-> session.n + 1]
    /\ UNCHANGED <<env, now, ticks, code, token, codeSigned, tokenSigned,
                   flows, registered, tool, url, req, res>>

\* lines 87-92: handleRequest returns and the `close` listener is registered
McpHandled ==
    /\ session.pc = "handling"
    /\ session' = [session EXCEPT !.pc = "listening", !.listener = TRUE]
    /\ UNCHANGED <<env, now, ticks, code, token, codeSigned, tokenSigned,
                   flows, registered, tool, url, req, res>>

\* lines 93-108: connect or handleRequest throws; the catch block answers
\* and closes the server, which closes the transport connected to it
McpThrows ==
    /\ session.pc = "handling"
    /\ session' = [session EXCEPT !.pc = "done", !.server = "closed",
                                  !.transport = "closed"]
    /\ UNCHANGED <<env, now, ticks, code, token, codeSigned, tokenSigned,
                   flows, registered, tool, url, req, res>>

\* the response emits `close`, once: the response ended or the client went
\* away.  The listener of lines 89-92 runs if it is registered by then.
ResponseClose ==
    /\ session.pc \in {"handling", "listening"}
    /\ ~session.closeFired
    /\ session' = IF session.listener
                  THEN [session EXCEPT !.closeFired = TRUE, !.pc = "done",
                                       !.transport = "closed",
                                       !.server = "closed"]
                  ELSE [session EXCEPT !.closeFired = TRUE]
    /\ UNCHANGED <<env, now, ticks, code, token, codeSigned, tokenSigned,
                   flows, registered, tool, url, req, res>>

\* the environments another process of the service can be started with
OtherEnvs ==
    { [env EXCEPT !.FRESHSALES_API_KEY = k] :
        k \in {"operator-secret", "other-secret", Undefined} }

\* another process, started with environment e, verifies a token this
\* process signed: its SIGNING_KEY is derived from its own environment
VerifyElsewhere ==
    /\ Idle
    /\ \E e \in OtherEnvs, tok \in Held, k \in {"code", "access", "any"} :
        /\ req' = [endpoint |-> "verify_elsewhere", tok |-> tok, kind |-> k,
                   env |-> e]
        /\ res' = [BaseRes EXCEPT
                     !.payload = Verifier(k, tok, now, SIGNING_KEY(e))]
    /\ UNCHANGED <<tool, url, session, env, now, ticks, code, token, codeSigned, tokenSigned,
                   flows, registered>>

\* a request to /oauth/register; nothing of it is kept by the server
Register ==
    /\ Idle
    /\ \E r \in RegisterRequests, uuid \in UUIDs :
        /\ req' = r
        /\ res' = registerHandler(r, uuid)
        /\ registered' = IF res'.status = 201
                         THEN registered \cup {res'.client_id} ELSE registered
    /\ UNCHANGED <<tool, url, session, env, now, ticks, code, token, codeSigned, tokenSigned, flows>>

\* a request for one of the two metadata documents
Metadata ==
    /\ Idle
    /\ \E r \in MetadataRequests :
        /\ req' = r
        /\ res' = IF r.endpoint = "metadata"
                  THEN metadataHandler(r) ELSE protectedResourceHandler(r)
    /\ UNCHANGED <<tool, url, session, env, now, ticks, code, token, codeSigned, tokenSigned,
                   flows, registered>>

\* client c starts its flow: one /authorize request of its own
FlowAuthorize ==
    /\ Idle
    /\ \E c \in ClientIds :
        /\ flows[c].code = NoToken
        /\ req' = FlowAuthorizeRequest(c)
        /\ res' = authorizeHandler(req', now, env)
        /\ code' = IF res'.status = 302 THEN res'.code ELSE code
        /\ codeSigned' = IF res'.status = 302 THEN res'.signed ELSE codeSigned
        /\ flows' = IF res'.status = 302
                    THEN [flows EXCEPT ![c].code = res'.code] ELSE flows
    /\ UNCHANGED <<tool, url, session, env, now, ticks, token, tokenSigned, registered>>

\* client c exchanges the code it holds, again if it likes
FlowToken ==
    /\ Idle
    /\ \E c \in ClientIds :
        /\ flows[c].code # NoToken
        /\ flows[c].n < MaxExchanges
        /\ req' = FlowTokenRequest(c)
        /\ res' = tokenHandler(req', now, env)
        /\ token' = IF res'.status = 200 THEN res'.access_token ELSE token
        /\ tokenSigned' = IF res'.status = 200 THEN res'.signed ELSE tokenSigned
        /\ flows' = IF res'.status = 200
                    THEN [flows EXCEPT ![c].token = res'.access_token,
                                       ![c].n = @ + 1]
                    ELSE flows
    /\ UNCHANGED <<tool, url, session, env, now, ticks, code, codeSigned, registered>>

\* the OAuth flow and the MCP endpoint under every request
Next ==
    \/ Tick
    \/ Authorize(AuthorizeRequests)
    \/ Token(TokenRequests)
    \/ StaticToken
    \/ Mcp
    \/ Close

Spec == Init /\ [][Next]_vars

\* the signer/verifier under every string a client can present
NextVerify ==
    \/ Tick
    \/ Authorize(FlowAuthorizeRequests)
    \/ Token(FlowTokenRequests)
    \/ Verify
    \/ Close

SpecVerify == InitConfigured /\ [][NextVerify]_vars

\* the flows of clients interleaved with registrations and metadata requests
NextStateless ==
    \/ Tick
    \/ FlowAuthorize
    \/ FlowToken
    \/ Register
    \/ Metadata
    \/ Close

SpecStateless == Init /\ [][NextStateless]_vars

\* the flows of clients and what a client can build by itself
NextForgery ==
    \/ Tick
    \/ FlowAuthorize
    \/ FlowToken
    \/ Forge
    \/ Close

SpecForgery == Init /\ [][NextForgery]_vars

\* the flow of clients that name a code_challenge_method
NextMethods ==
    \/ Tick
    \/ Authorize(MethodAuthorizeRequests)
    \/ Token(FlowTokenRequests)
    \/ Close

SpecMethods == Init /\ [][NextMethods]_vars

\* the flow of clients that send any redirect_uri to /token
NextRedirect ==
    \/ Tick
    \/ Authorize(FlowAuthorizeRequests)
    \/ Token(RedirectTokenRequests)
    \/ Close

SpecRedirect == Init /\ [][NextRedirect]_vars

\* the base URL is read and normalised
NextUrl ==
    \/ ReadBaseUrl
    \/ NormalizeBaseUrl
    \/ EnsureApiBasePath

SpecUrl == Init /\ [][NextUrl]_vars

\* tool calls against the CRM backend
NextTools == CallTool

SpecTools == Init /\ [][NextTools]_vars

\* the life of the server and transport of a POST to the MCP endpoint
NextMcpLife ==
    \/ Tick
    \/ McpAccept
    \/ McpHandled
    \/ McpThrows
    \/ ResponseClose

\* the handler runs on, and every response closes in the end
SpecMcpLife ==
    /\ Init /\ [][NextMcpLife]_vars
    /\ WF_vars(McpHandled \/ McpThrows)
    /\ WF_vars(ResponseClose)

\* tokens of one process verified by another
NextProcesses ==
    \/ Tick
    \/ Authorize(FlowAuthorizeRequests)
    \/ Token(FlowTokenRequests)
    \/ VerifyElsewhere
    \/ Close

SpecProcesses == Init /\ [][NextProcesses]_vars

\* the verifiers under arguments that are no signed payload
NextMalformed ==
    \/ Tick
    \/ Authorize(FlowAuthorizeRequests)
    \/ Token(FlowTokenRequests)
    \/ VerifyMalformed
    \/ Close

SpecMalformed == Init /\ [][NextMalformed]_vars

\* every endpoint of the service under every method, with and without a body
NextEndpoints ==
    \/ Tick
    \/ Authorize(AuthorizeRequests)
    \/ Token(EndpointTokenRequests)
    \/ StaticToken
    \/ Register
    \/ Metadata
    \/ Close

SpecEndpoints == Init /\ [][NextEndpoints]_vars

\* registration and the flows of clients, registered or not
NextRegister ==
    \/ Tick
    \/ Register
    \/ Authorize(RegistrationAuthorizeRequests)
    \/ Token(RegistrationTokenRequests)
    \/ Close

SpecRegister == Init /\ [][NextRegister]_vars

\* the flows of clients with distinct client_ids, interleaved
NextFlows ==
    \/ Tick
    \/ FlowAuthorize
    \/ FlowToken
    \/ Close

SpecFlows == Init /\ [][NextFlows]_vars

---------------------------------------------------------------------------
(* Claims about the signer/verifier, checked under SpecVerify *)

MacVerifies(tok) ==
    tok.shape = "envelope" /\ tok.h = Hmac(SIGNING_KEY(env), tok.d)

\* C1: a kind-restricted verifier (verifyAuthCode for code, verifyAccessToken
\* for access) accepts a token if and only if its MAC verifies under the
\* SigningKey, its payload kind is the expected one and now < expires_at,
\* strictly: a token presented at now = expires_at is not valid.
C1_ValidIffMacKindAndBeforeExpiry ==
    (req.endpoint = "verify" /\ req.kind \in {"code", "access"}) =>
        ( res.payload # Null
          <=> /\ MacVerifies(req.tok)
              /\ JsonParse(req.tok.d).t = req.kind
              /\ now < JsonParse(req.tok.d).exp )

\* C2: round trip.  verify(sign(P)) is P, field by field, for the payload P
\* that createAuthCode or createAccessToken signed, at every time before
\* P.exp.
C2_RoundTrip ==
    (req.endpoint = "verify" /\ req.kind = "any") =>
        /\ (code # NoToken /\ req.tok = code /\ now < codeSigned.exp)
              => res.payload = codeSigned
        /\ (token # NoToken /\ req.tok = token /\ now < tokenSigned.exp)
              => res.payload = tokenSigned

\* a code verified some time after it was issued and before its deadline
C2_Witness ==
    /\ req.endpoint = "verify" /\ req.kind = "any"
    /\ code # NoToken /\ req.tok = code
    /\ now > codeSigned.exp - CODE_TTL /\ now < codeSigned.exp
    /\ res.payload = codeSigned
    /\ res.payload.redirect_uri = ValidRedirect

C4_ExpiredRejected ==
    /\ ( /\ req.endpoint = "verify"
         /\ MacVerifies(req.tok)
         /\ req.tok.d.exp < now ) => res.payload = Null
    /\ ( /\ req.endpoint = "token"
         /\ code # NoToken /\ req.code = code
         /\ now > codeSigned.exp ) =>
            (res.status = 400 /\ res.error = "invalid_grant"
                /\ res.access_token = NoToken)

\* /token has refused a code presented after its deadline
C4_Witness ==
    /\ req.endpoint = "token" /\ code # NoToken /\ req.code = code
    /\ now > codeSigned.exp
    /\ res.status = 400 /\ res.error = "invalid_grant"

\* C5: kind isolation.  A token issued by createAuthCode is rejected by
\* verifyAccessToken, a token issued by createAccessToken is rejected by
\* verifyAuthCode, and an access token presented as `code` at /token yields
\* invalid_grant, at every time.
C5_KindIsolation ==
    /\ ( /\ req.endpoint = "verify" /\ req.kind = "access"
         /\ code # NoToken /\ req.tok = code ) => res.payload = Null
    /\ ( /\ req.endpoint = "verify" /\ req.kind = "code"
         /\ token # NoToken /\ req.tok = token ) => res.payload = Null
    /\ ( /\ req.endpoint = "token"
         /\ token # NoToken /\ req.code = token ) =>
            (res.status = 400 /\ res.error = "invalid_grant"
                /\ res.access_token = NoToken)

\* an unexpired code is presented to verifyAccessToken and rejected
C5_Witness ==
    /\ req.endpoint = "verify" /\ req.kind = "access"
    /\ code # NoToken /\ req.tok = code
    /\ now < codeSigned.exp
    /\ res.payload = Null

---------------------------------------------------------------------------
(* Claims about the endpoints, checked under Spec *)

\* the request is a POST to /token that presents the code /authorize issued,
\* before the code's deadline
ExchangesLiveCode ==
    /\ req.endpoint = "token" /\ req.method = "POST" /\ req.hasBody
    /\ code # NoToken /\ req.code = code
    /\ now < codeSigned.exp

\* C6: PKCE enforcement.  For a valid, unexpired code with stored challenge C
\* and a code_verifier string V, POST /token issues an access token only if
\* base64url(SHA-256(V)) = C; otherwise it answers 400 invalid_grant and
\* issues no access token.
C6_PkceEnforced ==
    ExchangesLiveCode =>
        /\ res.access_token # NoToken =>
              Sha256Base64url(req.code_verifier) = codeSigned.code_challenge
        /\ ( /\ req.grant_type = "authorization_code"
             /\ req.client_id \in ClientIds
             /\ req.code_verifier \in Verifiers
             /\ Sha256Base64url(req.code_verifier) # codeSigned.code_challenge )
              => /\ res.status = 400 /\ res.error = "invalid_grant"
                 /\ res.access_token = NoToken

\* a live code is exchanged with a verifier that does not hash to its
\* challenge, and the exchange is refused
C6_Witness ==
    /\ ExchangesLiveCode
    /\ codeSigned.code_challenge = Sha256Base64url(Verifier1)
    /\ req.code_verifier = Verifier2
    /\ res.status = 400 /\ res.error = "invalid_grant"
    /\ res.error_description = "Code verifier mismatch"

\* C7: the access token of a successful POST /token carries the client_id of
\* the payload of the code that was exchanged, whatever client_id the request
\* body supplies.
C7_AccessTokenCarriesCodeClientId ==
    (req.endpoint = "token" /\ res.status = 200) =>
        verifyAccessToken(res.access_token, now, SIGNING_KEY(env)).client_id
            = verifyAuthCode(req.code, now, SIGNING_KEY(env)).client_id

\* C8: a tool call is forwarded to the CRM backend only if the request
\* carries a bearer token that verifyAccessToken accepts; with a missing,
\* invalid, expired or wrong-kind token the handler answers 401 and makes no
\* backend request.  Stated for a configured deployment whose transport works.
C8_ResourceGate ==
    ( /\ req.endpoint = "mcp" /\ req.method = "POST" /\ req.rpc = "tools/call"
      /\ ~Falsy(env.FRESHSALES_API_KEY) /\ ~BaseUrlMissing(env) /\ ~req.fails
      /\ verifyAccessToken(req.authorization, now, SIGNING_KEY(env)) = Null )
        => (res.status = 401 /\ ~res.forwarded)

\* the error the stated order of checks gives a POST to a token endpoint:
\* grant_type, then missing fields, then the code, then PKCE
ExpectedTokenError ==
    IF getBodyValue(req, req.grant_type) # "authorization_code"
    THEN "unsupported_grant_type"
    ELSE IF req.endpoint = "static_token"
    THEN (IF req.code = STATIC_AUTH_CODE THEN Undefined ELSE "invalid_grant")
    ELSE IF FalsyToken(req.code) \/ Falsy(req.code_verifier) \/ Falsy(req.client_id)
    THEN "invalid_request"
    ELSE IF verifyAuthCode(req.code, now, SIGNING_KEY(env)) = Null
    THEN "invalid_grant"
    ELSE IF Sha256Base64url(req.code_verifier)
              # verifyAuthCode(req.code, now, SIGNING_KEY(env)).code_challenge
    THEN "invalid_grant"
    ELSE Undefined

\* C9: POST /token reports the first failure of the checks in the order
\* grant_type (absent included), missing code, code_verifier or client_id,
\* code verification, PKCE.
C9_FirstFailureReported ==
    (req.endpoint \in {"token", "static_token"} /\ req.method = "POST")
        => res.error = ExpectedTokenError

\* C10: a successful POST /token at time now answers 200 JSON with
\* token_type Bearer, expires_in 604800 and an access_token of kind access
\* whose expires_at is now + 7 days, whatever lifetime the code has left.
C10_SuccessResponse ==
    (req.endpoint = "token" /\ res.status = 200) =>
        LET P == verifyAccessToken(res.access_token, now, SIGNING_KEY(env))
        IN /\ res.kind = "json"
           /\ res.token_type = "Bearer"
           /\ res.expires_in = EXPIRES_IN
           /\ P # Null /\ P.t = "access"
           /\ P.exp = now + ACCESS_TTL
           /\ P.exp - now = res.expires_in * 1000

\* a code is exchanged some time after it was issued
C10_Witness ==
    /\ req.endpoint = "token" /\ res.status = 200
    /\ req.code = code /\ now > codeSigned.exp - CODE_TTL
    /\ verifyAccessToken(res.access_token, now, SIGNING_KEY(env)).exp
          = now + ACCESS_TTL

\* the request presents the access token /token returned to a configured
\* MCP endpoint whose transport works, as a tool call
PresentsIssuedToken ==
    /\ req.endpoint = "mcp" /\ req.method = "POST" /\ req.rpc = "tools/call"
    /\ ~Falsy(env.FRESHSALES_API_KEY) /\ ~BaseUrlMissing(env) /\ ~req.fails
    /\ token # NoToken /\ req.authorization = token

\* C11: end-to-end flow.  After /authorize and /token succeeded, the returned
\* access_token presented to the resource gate is accepted at every time
\* before its expires_at, and rejected with 401 once its expires_at is in
\* the past.
C11_EndToEndFlow ==
    PresentsIssuedToken =>
        /\ now < tokenSigned.exp => (res.status = 200 /\ res.forwarded)
        /\ now > tokenSigned.exp => (res.status = 401 /\ ~res.forwarded)

\* the response is a JSON error with status 400: no redirect, no code
RefusedWith(err) ==
    /\ res.status = 400 /\ res.kind = "json" /\ res.error = err
    /\ res.location = Undefined
    /\ res.code = NoToken /\ res.signed = Null

\* C12: GET /authorize validation.  A response_type other than `code` fails
\* with 400 unsupported_response_type, whatever the other parameters; with
\* response_type=code, a missing client_id, redirect_uri or code_challenge
\* fails with 400 invalid_request; both are JSON errors without a redirect
\* and without an authorization code.
C12_AuthorizeValidation ==
    (req.endpoint = "authorize" /\ req.method = "GET") =>
        /\ req.response_type # "code" => RefusedWith("unsupported_response_type")
        /\ ( /\ req.response_type = "code"
             /\ \/ req.client_id \in {Undefined, Empty}
                \/ req.redirect_uri \in {Undefined, Empty}
                \/ req.code_challenge \in {Undefined, Empty} )
              => RefusedWith("invalid_request")

\* a request for a code without code_challenge is refused
C12_Witness ==
    /\ req.endpoint = "authorize" /\ req.method = "GET"
    /\ req.response_type = "code" /\ req.client_id \in ClientIds
    /\ req.redirect_uri = ValidRedirect /\ req.code_challenge = Undefined
    /\ RefusedWith("invalid_request")

\* a GET to /authorize with every required parameter and a redirect_uri that
\* is an absolute URL
ValidAuthorizeRequest ==
    /\ req.endpoint = "authorize" /\ req.method = "GET"
    /\ req.response_type = "code"
    /\ req.client_id \notin {Undefined, Empty}
    /\ req.code_challenge \notin {Undefined, Empty}
    /\ req.redirect_uri = ValidRedirect

\* C13: a valid GET /authorize at time now answers 302 to the request's
\* redirect_uri with a `code` that verifies as a kind=code token holding
\* exactly the request's client_id, code_challenge, redirect_uri and
\* code_challenge_method (S256 when absent) and expires_at = now + 5 minutes;
\* `state` is echoed when supplied and absent otherwise.
C13_AuthorizeRedirect ==
    ValidAuthorizeRequest =>
        /\ res.status = 302 /\ res.kind = "redirect"
        /\ res.location = req.redirect_uri
        /\ verifyAuthCode(res.code, now, SIGNING_KEY(env)) =
              [t |-> "code",
               client_id |-> req.client_id,
               code_challenge |-> req.code_challenge,
               code_challenge_method |->
                  IF req.code_challenge_method = Undefined
                  THEN "S256" ELSE req.code_challenge_method,
               redirect_uri |-> req.redirect_uri,
               exp |-> now + 5 * 60 * 1000]
        /\ res.state = req.state

\* a request without state and without a method is redirected some time
\* after the process started
C13_Witness ==
    /\ ValidAuthorizeRequest
    /\ req.state = Undefined /\ req.code_challenge_method = Undefined
    /\ now > StartTime
    /\ res.status = 302 /\ res.state = Undefined
    /\ verifyAuthCode(res.code, now, SIGNING_KEY(env)).code_challenge_method = "S256"

---------------------------------------------------------------------------
(* Claims about concurrent flows, checked under SpecFlows *)

\* C14: concurrent safety.  For flows with pairwise distinct client_ids run
\* in any interleaving, the code each flow obtains embeds that flow's own
\* client_id and code_challenge, and the access token each flow obtains
\* embeds that flow's own client_id and no other flow's.
C14_NoCrossContamination ==
    \A c \in ClientIds :
        /\ flows[c].code # NoToken =>
              /\ JsonParse(flows[c].code.d).client_id = c
              /\ JsonParse(flows[c].code.d).code_challenge
                    = Sha256Base64url(VerifierOf(c))
        /\ flows[c].token # NoToken =>
              /\ JsonParse(flows[c].token.d).client_id = c
              /\ \A o \in ClientIds \ {c} :
                    JsonParse(flows[c].token.d).client_id # o

\* abc exchanges its code after xyz was redirected with a later one, and
\* both end with a token
C14_Witness ==
    /\ req = FlowTokenRequest("abc") /\ res.status = 200
    /\ flows["xyz"].code # NoToken
    /\ JsonParse(flows["xyz"].code.d).exp > JsonParse(flows["abc"].code.d).exp
    /\ flows["xyz"].token # NoToken
    /\ JsonParse(flows["abc"].token.d).client_id = "abc"

\* C15: code reuse within the validity window.  Once POST /token has
\* succeeded for a code C with verifier V, every later POST /token with the
\* same C and V before C's expires_at succeeds and returns an access token:
\* no request consumes or invalidates a code.
C15_CodeReusable ==
    \A c \in ClientIds :
        ( /\ req = FlowTokenRequest(c)
          /\ flows[c].n >= 1
          /\ now < JsonParse(flows[c].code.d).exp )
            => (res.status = 200 /\ res.access_token # NoToken)

\* a second exchange of the same code, later than the first, has succeeded
C15_Witness ==
    /\ req = FlowTokenRequest("abc")
    /\ flows["abc"].n = 2
    /\ res.status = 200
    /\ res.access_token # NoToken
    /\ now > JsonParse(flows["abc"].code.d).exp - CODE_TTL

---------------------------------------------------------------------------
(* Claims about every endpoint, checked under SpecEndpoints *)

\* the statuses with which a request succeeds
SuccessStatuses == {200, 201, 204, 302}

\* C16: every request to /authorize, /token and /register that does not
\* succeed ends in a response whose body is JSON with an `error` field; no
\* input (a redirect_uri that is no absolute URL, an absent request body)
\* makes a handler raise an uncaught exception.
C16_FailuresAreJsonErrors ==
    ( /\ req.endpoint \in {"authorize", "token", "register"}
      /\ res.status \notin SuccessStatuses )
        => (res.kind = "json" /\ res.error # Undefined)

---------------------------------------------------------------------------
(* Claims about malformed arguments, checked under SpecMalformed *)

\* the data of the argument is JSON text that is no object
NonObjectData == req.tok.shape = "envelope" /\ "json" \in DOMAIN req.tok.d.s

---------------------------------------------------------------------------
(* Claims about every endpoint, continued: SpecEndpoints and SpecRegister *)

\* the endpoints C18 names
CorsEndpoints ==
    {"authorize", "token", "register", "metadata", "protected_resource",
     "static_token"}

\* C18: every HTTP endpoint (authorize, token, register, both metadata
\* documents, the token handler of src/api/oauth/token.js) sets the CORS
\* headers on every response and answers an OPTIONS request with 204 before
\* any other processing.
C18_CorsEverywhere ==
    req.endpoint \in CorsEndpoints =>
        /\ res.cors
        /\ req.method = "OPTIONS" => res.status = 204

\* C19: a request made with the wrong HTTP verb is rejected with 405
\* method_not_allowed and has no other effect: /token and /register accept
\* only POST (besides OPTIONS), and /authorize issues a code only for GET.
C19_WrongVerbRejected ==
    /\ ( /\ req.endpoint \in {"token", "register"}
         /\ req.method \notin {"POST", "OPTIONS"} )
          => /\ res.status = 405 /\ res.error = "method_not_allowed"
             /\ res.access_token = NoToken /\ res.client_id = Undefined
    /\ ( /\ req.endpoint = "authorize"
         /\ req.method \notin {"GET", "OPTIONS"} )
          => /\ res.status = 405 /\ res.error = "method_not_allowed"
             /\ res.code = NoToken

\* a flow request answered while /register has returned a client_id
FlowAfterRegistration ==
    /\ registered # {}
    /\ req.endpoint \in {"authorize", "token"}
    /\ req.client_id \in ClientIds \cup UUIDs

\* C20: registration is decorative.  POST /register answers 201 with a
\* generated client_id and token_endpoint_auth_method "none"; a later
\* /authorize or /token request has the same outcome whether or not its
\* client_id was ever returned by /register: a well-formed /authorize is
\* redirected with a code for the client_id it names, and the exchange of a
\* live code with the matching verifier succeeds.
C20_RegistrationDecorative ==
    /\ (req.endpoint = "register" /\ req.method = "POST" /\ req.hasBody)
          => /\ res.status = 201 /\ res.kind = "json"
             /\ res.client_id \in UUIDs
             /\ res.token_endpoint_auth_method = "none"
    /\ (req.endpoint = "authorize" /\ req \in RegistrationAuthorizeRequests)
          => /\ res.status = 302
             /\ JsonParse(res.code.d).client_id = req.client_id
    /\ ( /\ ExchangesLiveCode
         /\ req \in RegistrationTokenRequests
         /\ Sha256Base64url(req.code_verifier) = codeSigned.code_challenge )
          => (res.status = 200 /\ res.access_token # NoToken)

\* after /register returned a client_id, a client that uses another one is
\* redirected with a code
C20_Witness ==
    /\ FlowAfterRegistration
    /\ req.endpoint = "authorize"
    /\ req.client_id \notin registered
    /\ res.status = 302
    /\ JsonParse(res.code.d).client_id = req.client_id

---------------------------------------------------------------------------
(* Claims about the signing key *)

\* C21: when FRESHSALES_API_KEY is unset, startup fails: the process never
\* derives a SigningKey from a default value, and so never signs or accepts
\* a code or an access token.
C21_NoKeyNoTokens ==
    Falsy(env.FRESHSALES_API_KEY) =>
        /\ res.code = NoToken /\ res.access_token = NoToken
        /\ code = NoToken /\ token = NoToken

\* the operator secret a process derives its key from: the variable, or the
\* default when the variable is unset or empty
SecretOf(e) ==
    IF e.FRESHSALES_API_KEY \in {Undefined, Empty}
    THEN "mcp-oauth-default-key" ELSE e.FRESHSALES_API_KEY

\* the kind of the payload a token was signed for
KindOf(tok) == JsonParse(tok.d).t

\* C22: the SigningKey is fixed at process start and no request changes it:
\* every token the process has signed bears the MAC of the key the process
\* has now.  An unexpired token signed by one process verifies in another
\* process if and only if both derived their key from the same operator
\* secret.
C22_KeyFixedAndShared ==
    /\ \A tok \in Held : tok.h = Hmac(SecretOf(env), tok.d)
    /\ ( /\ req.endpoint = "verify_elsewhere"
         /\ req.kind \in {"any", KindOf(req.tok)}
         /\ now < JsonParse(req.tok.d).exp )
          => (res.payload # Null <=> SecretOf(req.env) = SecretOf(env))

\* an unexpired access token is refused by a process started with another
\* secret
C22_Witness ==
    /\ req.endpoint = "verify_elsewhere" /\ req.kind = "access"
    /\ token # NoToken /\ req.tok = token
    /\ now < tokenSigned.exp /\ now > StartTime
    /\ SecretOf(req.env) # SecretOf(env)
    /\ res.payload = Null

---------------------------------------------------------------------------
(* Claims about statelessness, checked under SpecStateless *)

\* the response to the /authorize request of client c at time t under the
\* key of `secret`, written from the request alone
AuthorizeResponseOf(c, t, secret) ==
    LET P == [t |-> "code", client_id |-> c,
              code_challenge |-> Sha256Base64url(VerifierOf(c)),
              code_challenge_method |-> "S256",
              redirect_uri |-> ValidRedirect,
              exp |-> t + CODE_TTL]
    IN [BaseRes EXCEPT !.status = 302, !.kind = "redirect",
                       !.location = ValidRedirect, !.state = c,
                       !.code = sign(P, secret), !.signed = P, !.cors = TRUE]

\* the response to the /token request of client c at time t, for a code
\* whose deadline has not passed
TokenResponseOf(c, t, secret) ==
    LET P == [t |-> "access", client_id |-> c,
              code_challenge |-> Undefined,
              code_challenge_method |-> Undefined,
              redirect_uri |-> Undefined,
              exp |-> t + ACCESS_TTL]
    IN [BaseRes EXCEPT !.status = 200, !.kind = "json",
                       !.access_token = sign(P, secret), !.signed = P,
                       !.token_type = "Bearer", !.expires_in = EXPIRES_IN,
                       !.cors = TRUE]

\* the response to a request is the one determined by the request, the key
\* and the time, whatever was served before
ResponseDetermined ==
    /\ \A c \in ClientIds :
        /\ req = FlowAuthorizeRequest(c)
              => res = AuthorizeResponseOf(c, now, SecretOf(env))
        /\ (req = FlowTokenRequest(c) /\ now <= JsonParse(req.code.d).exp)
              => res = TokenResponseOf(c, now, SecretOf(env))
        /\ (req = FlowTokenRequest(c) /\ now > JsonParse(req.code.d).exp)
              => (res.status = 400 /\ res.error = "invalid_grant")
    /\ req.endpoint = "register" =>
          \E uuid \in UUIDs :
              res = IF req.method = "OPTIONS" THEN NoContent(TRUE)
                    ELSE IF req.method # "POST"
                    THEN JsonError(405, "method_not_allowed", TRUE)
                    ELSE IF ~req.hasBody THEN Thrown(TRUE)
                    ELSE [BaseRes EXCEPT !.status = 201, !.kind = "json",
                            !.client_id = uuid,
                            !.token_endpoint_auth_method = "none",
                            !.cors = TRUE]
    /\ req.endpoint \in {"metadata", "protected_resource"} =>
          /\ res.status = IF req.method = "OPTIONS" THEN 204 ELSE 200
          /\ res.cors

---------------------------------------------------------------------------
(* Claims about forgery, checked under SpecForgery *)

\* the server returned this token, in some encoding of its envelope
WasIssued(tok) ==
    \E held \in FlowTokens : Base64urlDecode(held) = Base64urlDecode(tok)

\* C24: no forgery.  In every reachable state, every access token accepted
\* by verifyAccessToken was returned by an earlier successful POST /token
\* and every code accepted by verifyAuthCode by an earlier successful
\* /authorize: a client cannot construct an accepted one without the
\* SigningKey.
C24_NoForgery ==
    (req.endpoint = "forge" /\ res.payload # Null) => WasIssued(req.tok)

---------------------------------------------------------------------------
(* Claims about the code_challenge_method, checked under SpecMethods *)

\* C25: a code requested with code_challenge_method=plain and challenge C is
\* issued, and /token validates it with the S256 transform only: the
\* exchange succeeds exactly when base64url(SHA-256(code_verifier)) = C, so
\* code_verifier = C fails with invalid_grant; the stored method never
\* influences the outcome.
C25_PlainValidatedAsS256 ==
    /\ ( /\ req.endpoint = "authorize"
         /\ req.code_challenge_method = "plain" )
          => /\ res.status = 302
             /\ JsonParse(res.code.d).code_challenge_method = "plain"
             /\ JsonParse(res.code.d).code_challenge = req.code_challenge
    /\ (ExchangesLiveCode /\ req.code_verifier \in Verifiers)
          => /\ res.status = 200
                  <=> Sha256Base64url(req.code_verifier) = codeSigned.code_challenge
             /\ res.status # 200
                  => (res.status = 400 /\ res.error = "invalid_grant")
             /\ req.code_verifier = codeSigned.code_challenge
                  => (res.status = 400 /\ res.error = "invalid_grant")

\* a plain code is exchanged with the verifier that is its challenge, and
\* refused
C25_Witness ==
    /\ ExchangesLiveCode
    /\ codeSigned.code_challenge_method = "plain"
    /\ req.code_verifier = codeSigned.code_challenge
    /\ res.status = 400 /\ res.error = "invalid_grant"
    /\ res.error_description = "Code verifier mismatch"

---------------------------------------------------------------------------
(* Claims about redirect_uri at /token, checked under SpecRedirect *)

\* C26: the redirect_uri supplied to POST /token is unchecked: two /token
\* requests that differ only in redirect_uri (absent, equal to the code's,
\* different from it) get the same status and the same error or success.
C26_RedirectUriUnchecked ==
    req.endpoint = "token" =>
        \A u \in RedirectUris :
            LET other == tokenHandler([req EXCEPT !.redirect_uri = u], now, env)
            IN /\ other.status = res.status
               /\ other.error = res.error
               /\ other.error_description = res.error_description
               /\ (other.access_token = NoToken) <=> (res.access_token = NoToken)

\* a live code is exchanged with a redirect_uri that is not the one it was
\* issued for, and the exchange succeeds
C26_Witness ==
    /\ ExchangesLiveCode
    /\ req.redirect_uri = OtherRedirect
    /\ codeSigned.redirect_uri = ValidRedirect
    /\ res.status = 200 /\ res.access_token # NoToken

---------------------------------------------------------------------------
(* Claims about the MCP handler's server and transport: SpecMcpLife *)

\* C27: every MCP server and transport created for a POST request is
\* eventually closed on every path: on the error path by the catch block, on
\* the success path by the response's `close` event, also when that event
\* fires before handleRequest returns.
C27_EventuallyClosed ==
    /\ (session.server = "open") ~> (session.server = "closed")
    /\ (session.transport = "open") ~> (session.transport = "closed")

---------------------------------------------------------------------------
(* Claims about the tool servers: SpecTools *)

BadId(v) ==
    \/ ~isDefined(v)
    \/ ~IsFinite(ToNumber(v))
    \/ ToNumber(v).n <= 0

\* C30: an id-addressed tool issues its backend request only with a finite,
\* strictly positive numeric id; for an id that is absent, non-numeric, zero
\* or negative it throws before any backend request is made.
C30_OnlyPositiveIds ==
    tool.name \in IdTools =>
        /\ \A i \in 1..Len(tool.requests) :
              IsFinite(tool.requests[i].id) /\ tool.requests[i].id.n > 0
        /\ BadId(tool.id) => tool.threw /\ tool.requests = <<>>

---------------------------------------------------------------------------
(* Claims about the base URL: SpecUrl *)

\* C29: normalizeBaseUrl and ensureApiBasePath are idempotent,
\* and a non-empty normalised URL starts with http:// or https:// and never
\* ends with a slash.
C29_NormalisationIdempotent ==
    /\ url.last = "normalizeBaseUrl" =>
          /\ normalizeBaseUrl(url.value) = url.value
          /\ url.value # <<>> =>
                /\ StartsWithI(url.value, Http) \/ StartsWithI(url.value, Https)
                /\ url.value[Len(url.value)] # "/"
    /\ url.last = "ensureApiBasePath" =>
          ensureApiBasePath(url.value) = url.value

=============================================================================
